---------------------------- MODULE Spec2Model ----------------------------
(***************************************************************************)
(* A model of the Smart Buy-Hold strategy (src/strategy.py) and of the     *)
(* buy-hold backtester's metrics (src/backtest.py).                        *)
(*                                                                         *)
(* Numbers.  Python floats are modelled as exact rationals [k, n, d]       *)
(* (k = "rat", n/d in lowest terms, d > 0), the float NaN as the value     *)
(* NaN, and a square root that need not be rational as [k = "root"]:       *)
(* sign(n) * sqrt(|n| / d).  Rounding error of IEEE doubles is not         *)
(* modelled.                                                               *)
(*                                                                         *)
(* Control.  A step of the model is the call of a handler or one           *)
(* iteration of a loop that calls the exchange client (fetch_ohlcv, or     *)
(* fetch_ticker with the order that follows it).  Between two steps the    *)
(* handler is suspended in `frame` (its program counter and its local      *)
(* variables).  The code a handler runs after its last exchange call, its  *)
(* return included, belongs to the step of that call; loops that call      *)
(* nothing (no exchange connected) run within the step that enters them.   *)
(***************************************************************************)
EXTENDS Integers, Sequences, FiniteSets, TLC

VARIABLES
    config,         \* self.config, loaded once by __init__
    exchange,       \* self.exchange: "None" or "Connected"
    positions,      \* self.positions: an insertion-ordered dict pair -> position
    now,            \* the wall clock read by datetime.now()
    callNo,         \* number of handler calls made so far (history)
    last_rebalance, \* clock value when the latest enabled rebalance() started (history)
    frame,          \* the running handler: pc, locals, return value
    bt              \* the backtester: the data frame at hand and calculate_metrics' result

vars == <<config, exchange, positions, now, callNo, last_rebalance, frame, bt>>

-----------------------------------------------------------------------------
(* Bounds of the model *)

MaxLen == 3         \* longest list of pairs (config['pairs'], the argument of calculate_position_sizes)
MaxClose == 2       \* closes and ticker prices range over 1..MaxClose
MaxBars == 5        \* longest price series given to calculate_metrics
MaxCalls == 2       \* handler calls in one run of the live strategy
MaxTime == 1        \* the clock stops advancing at MaxTime

Assets == <<"X", "Y", "Z">>
AssetSet == {Assets[j] : j \in 1..Len(Assets)}

-----------------------------------------------------------------------------
(* Numbers *)

Abs(x) == IF x < 0 THEN -x ELSE x

RECURSIVE GCD(_, _)
GCD(a, b) == IF b = 0 THEN a ELSE GCD(b, a % b)

Rat(n, d) ==
    LET s == IF d < 0 THEN -1 ELSE 1
        g == GCD(Abs(n), Abs(d))
    IN  [k |-> "rat", n |-> (s * n) \div g, d |-> (s * d) \div g]

NaN == [k |-> "nan", n |-> 0, d |-> 0]
Zero == Rat(0, 1)
One == Rat(1, 1)
Int2R(x) == Rat(x, 1)
IsNaN(a) == a.k = "nan"

RAdd(a, b) == IF IsNaN(a) \/ IsNaN(b) THEN NaN ELSE Rat(a.n * b.d + b.n * a.d, a.d * b.d)
RSub(a, b) == IF IsNaN(a) \/ IsNaN(b) THEN NaN ELSE Rat(a.n * b.d - b.n * a.d, a.d * b.d)
RMul(a, b) == IF IsNaN(a) \/ IsNaN(b) THEN NaN ELSE Rat(a.n * b.n, a.d * b.d)
\* numpy float64 division: 0/0 is nan (a RuntimeWarning, no exception); the model
\* never divides a non-zero number by zero.
RDiv(a, b) == IF IsNaN(a) \/ IsNaN(b) \/ b.n = 0 THEN NaN ELSE Rat(a.n * b.d, a.d * b.n)
\* comparisons with NaN are False, as in IEEE
RGt(a, b) == ~IsNaN(a) /\ ~IsNaN(b) /\ a.n * b.d > b.n * a.d
RLt(a, b) == RGt(b, a)

\* sign(q) * sqrt(|q|); sqrt(0) is the number 0
Root(q) == IF IsNaN(q) THEN NaN ELSE IF q.n = 0 THEN Zero ELSE [k |-> "root", n |-> q.n, d |-> q.d]
\* a > 0 for a number, a root or NaN
Positive(a) == a.k # "nan" /\ a.n > 0

RECURSIVE RSum(_)
RSum(s) == IF s = <<>> THEN Zero ELSE RAdd(Head(s), RSum(Tail(s)))

-----------------------------------------------------------------------------
(* Python's insertion-ordered dict: a sequence of [key, val] with distinct keys *)

DictKeys(d) == [j \in 1..Len(d) |-> d[j].key]
DictVals(d) == [j \in 1..Len(d) |-> d[j].val]
DictHas(d, k) == \E j \in 1..Len(d) : d[j].key = k
DictGet(d, k) == d[CHOOSE j \in 1..Len(d) : d[j].key = k].val
\* d[k] = v: an existing key keeps its place and takes the new value
DictSet(d, k, v) ==
    IF DictHas(d, k)
    THEN [j \in 1..Len(d) |-> IF d[j].key = k THEN [key |-> k, val |-> v] ELSE d[j]]
    ELSE Append(d, [key |-> k, val |-> v])

\* dict.get(key, default) on a JSON object, modelled as a function on its keys
Get(obj, key, default) == IF key \in DOMAIN obj THEN obj[key] ELSE default

Take(s, k) == SubSeq(s, 1, IF k < Len(s) THEN k ELSE Len(s))


-----------------------------------------------------------------------------
(* The exchange client: what a call can return *)

\* fetch_ohlcv(pair, '1d', limit=30): the call raises, or returns a window of bars
\* (only the first and the last close are read; windows of 0, 1 and 2 bars)
Closes == 1..MaxClose
Windows == {<<>>} \cup {<<a>> : a \in Closes} \cup {<<a, b>> : a \in Closes, b \in Closes}
OhlcvFailed == [ok |-> FALSE, closes |-> <<>>]
OhlcvOutcomes == {OhlcvFailed} \cup {[ok |-> TRUE, closes |-> w] : w \in Windows}

\* fetch_ticker(pair): the call raises, or returns a ticker with a positive last price
TickerFailed == [ok |-> FALSE, last |-> 0]
TickerOutcomes == {TickerFailed} \cup {[ok |-> TRUE, last |-> p] : p \in Closes}

\* (df['close'].iloc[-1] - df['close'].iloc[0]) / df['close'].iloc[0]
Momentum(closes) == Rat(closes[Len(closes)] - closes[1], closes[1])

\* the try body of the ranking loops raises: the call failed, or iloc[0] on no rows
Raises(out) == ~out.ok \/ out.closes = <<>>

-----------------------------------------------------------------------------
(* Configuration *)

RECURSIVE ListsUpTo(_)
ListsUpTo(n) ==
    IF n = 0 THEN {<<>>}
    ELSE LET shorter == ListsUpTo(n - 1)
         IN  shorter \cup {Append(l, a) : l \in {s \in shorter : Len(s) = n - 1}, a \in AssetSet}

PairLists == ListsUpTo(MaxLen)

\* a JSON object without keys, and the objects that may hold one optional key
NoKeys == [key \in {} |-> TRUE]
Opt(key, values) == {NoKeys} \cup {(key :> v) : v \in values}

DefaultMaxPairs == 5
Capital == 12

\* self.config.get('rebalancing', {}).get('enabled', False)
RebalancingEnabled == Get(Get(config, "rebalancing", NoKeys), "enabled", FALSE)
\* the configured rebalancing frequency, in clock ticks (the code never reads it)
Frequency == Get(Get(config, "rebalancing", NoKeys), "frequency", 0)

-----------------------------------------------------------------------------
(* The running handler *)

IdleFrame ==
    [pc |-> "idle", op |-> "none", err |-> "none",
     before |-> <<>>,           \* self.positions when the handler was called (history)
     fetched |-> 0,             \* fetch_ohlcv / fetch_ticker calls the handler made (history)
     ordered |-> 0,             \* create_market_buy_order calls the handler made (history)
     arg |-> <<>>,              \* the list given to calculate_position_sizes
     pairs |-> <<>>,            \* the list the current loop iterates over
     i |-> 0,                   \* the loop's position in it
     performance_data |-> <<>>, \* the loop's dict
     since |-> 0,               \* rebalance: clock ticks since the previous rebalance (history)
     warned |-> {},             \* pairs whose latest fetch logged "Failed to get data"
     selected |-> <<>>,         \* what select_pairs returned
     position_sizes |-> <<>>,   \* what calculate_position_sizes returned
     bought |-> {},             \* pairs execute_trades recorded a position for
     total_value |-> Zero, total_cost |-> Zero,
     valued |-> <<>>,           \* check_performance: pair -> current_value logged
     failed |-> {},             \* check_performance: pairs logged "Failed to check"
     report |-> <<>>]           \* check_performance: <<total_profit_pct>> if logged

\* the frame of a handler that has just been called
Call(op) == [IdleFrame EXCEPT !.op = op, !.before = positions]

Return(f) == [f EXCEPT !.pc = "idle", !.err = "none"]
Raise(f, e) == [f EXCEPT !.pc = "idle", !.err = e]

RECURSIVE ZeroFor(_, _)
\* the loop body's else branch for every pair: performance_data[pair] = 0
ZeroFor(pairs, d) ==
    IF pairs = <<>> THEN d ELSE ZeroFor(Tail(pairs), DictSet(d, Head(pairs), Zero))

RECURSIVE DictComp(_, _, _)
\* {pair: v for pair in pairs}
DictComp(pairs, v, d) ==
    IF pairs = <<>> THEN d ELSE DictComp(Tail(pairs), v, DictSet(d, Head(pairs), v))

RECURSIVE InsertDescUnstable(_, _)
\* a sort that is not stable: x goes in front of the items of equal value
InsertDescUnstable(s, x) ==
    IF s = <<>> THEN <<x>>
    ELSE IF ~RLt(x.val, Head(s).val) THEN <<x>> \o s
    ELSE <<Head(s)>> \o InsertDescUnstable(Tail(s), x)

RECURSIVE InsertDesc(_, _)
\* x goes behind every item whose value is not smaller: sorted(..., reverse=True) is stable
InsertDesc(s, x) ==
    IF s = <<>> THEN <<x>>
    ELSE IF RGt(x.val, Head(s).val) THEN <<x>> \o s
    ELSE <<Head(s)>> \o InsertDesc(Tail(s), x)

RECURSIVE SortedDesc(_, _)
\* sorted(performance_data.items(), key=lambda x: x[1], reverse=True)
SortedDesc(items, acc) ==
    IF items = <<>> THEN acc ELSE SortedDesc(Tail(items), InsertDesc(acc, Head(items)))

-----------------------------------------------------------------------------
(* execute_trades: the buy loop *)

\* for pair, size in position_sizes.items(): without an exchange every iteration
\* raises AttributeError, which is caught and logged
BuyEnter(f, sizes) ==
    LET g == [f EXCEPT !.position_sizes = sizes]
    IN  IF sizes = <<>> \/ exchange = "None" THEN Return(g)
        ELSE [g EXCEPT !.pc = "buy", !.i = 1]

-----------------------------------------------------------------------------
(* calculate_position_sizes *)

AfterSizes(f, sizes) ==
    IF f.op = "calculate_position_sizes"
    THEN Return([f EXCEPT !.position_sizes = sizes])
    ELSE BuyEnter(f, sizes)

\* lines 104-111 without the else branch: the weights of a zero sum stay zero
SizesFinishNoFallback(f, perf) ==
    LET total_weight == RSum(DictVals(perf))
        total_capital == Int2R(config["capital"])
        weights ==
            [j \in 1..Len(perf) |->
                [key |-> perf[j].key,
                 val |-> IF RGt(total_weight, Zero)
                         THEN RDiv(perf[j].val, total_weight) ELSE Zero]]
        sizes == [j \in 1..Len(weights) |->
                     [key |-> weights[j].key, val |-> RMul(total_capital, weights[j].val)]]
    IN  AfterSizes([f EXCEPT !.performance_data = perf], sizes)

\* lines 104-111: normalise the weights, or fall back to equal weights
SizesFinish(f, perf) ==
    LET total_weight == RSum(DictVals(perf))
        total_capital == Int2R(config["capital"])
        weights ==
            IF RGt(total_weight, Zero)
            THEN [j \in 1..Len(perf) |->
                     [key |-> perf[j].key, val |-> RDiv(perf[j].val, total_weight)]]
            ELSE DictComp(f.pairs, RDiv(One, Int2R(Len(f.pairs))), <<>>)
        sizes == [j \in 1..Len(weights) |->
                     [key |-> weights[j].key, val |-> RMul(total_capital, weights[j].val)]]
    IN  AfterSizes([f EXCEPT !.performance_data = perf], sizes)

calculate_position_sizes(f, pairs) ==
    LET total_capital == Int2R(config["capital"])
        allocation == Get(config, "allocation", "equal")
        g == [f EXCEPT !.pairs = pairs, !.performance_data = <<>>]
    IN  IF allocation = "equal"
        THEN IF Len(pairs) = 0
             THEN Raise(g, "ZeroDivisionError")
             ELSE AfterSizes(g, DictComp(pairs, RDiv(total_capital, Int2R(Len(pairs))), <<>>))
        ELSE IF allocation = "momentum"
        THEN IF pairs = <<>> \/ exchange = "None"
             THEN SizesFinish(g, ZeroFor(pairs, <<>>))
             ELSE [g EXCEPT !.pc = "sizes", !.i = 1]
        ELSE IF Len(pairs) = 0
             THEN AfterSizes(g, <<>>)
             ELSE AfterSizes(g, DictComp(pairs, RDiv(total_capital, Int2R(Len(pairs))), <<>>))

\* performance_data[pair] = max(0, returns), or 0 when the try body raises
ClippedPerf(out) ==
    IF Raises(out) THEN Zero
    ELSE IF RGt(Momentum(out.closes), Zero) THEN Momentum(out.closes) ELSE Zero

\* one iteration of the loop of lines 92-102, with the exchange connected
SizesStep ==
    /\ frame.pc = "sizes"
    /\ \E out \in OhlcvOutcomes :
         LET pair == frame.pairs[frame.i]
             perf == DictSet(frame.performance_data, pair, ClippedPerf(out))
             g == [frame EXCEPT !.fetched = @ + 1]
         IN  frame' = IF frame.i = Len(frame.pairs)
                      THEN SizesFinish(g, perf)
                      ELSE [g EXCEPT !.performance_data = perf, !.i = @ + 1]
    /\ UNCHANGED <<config, exchange, positions, now, callNo, last_rebalance, bt>>

-----------------------------------------------------------------------------
(* select_pairs *)

AfterSelect(f, selected) ==
    LET g == [f EXCEPT !.selected = selected]
    IN  IF f.op = "select_pairs" THEN Return(g) ELSE calculate_position_sizes(g, selected)

\* lines 69-74: sort by performance and select the top N
SelectFinish(f, perf) ==
    LET sorted_pairs == SortedDesc(perf, <<>>)
        top == Take(sorted_pairs, Get(config, "max_pairs", DefaultMaxPairs))
    IN  AfterSelect([f EXCEPT !.performance_data = perf], DictKeys(top))

select_pairs(f) ==
    LET pairs == config["pairs"]
        g == [f EXCEPT !.pairs = pairs, !.performance_data = <<>>, !.warned = {}]
    IN  IF Get(config, "dynamic_selection", FALSE)
        THEN IF pairs = <<>> \/ exchange = "None"
             THEN SelectFinish(g, ZeroFor(pairs, <<>>))
             ELSE [g EXCEPT !.pc = "select", !.i = 1]
        ELSE AfterSelect(g, pairs)

\* a failed fetch penalised instead of counted as flat
PenalisedPerf(out) == IF Raises(out) THEN Rat(-1, 1) ELSE Momentum(out.closes)

\* performance_data[pair] = returns, or 0 when the try body raises
RankedPerf(out) == IF Raises(out) THEN Zero ELSE Momentum(out.closes)

\* one iteration of the loop of lines 52-67, with the exchange connected
SelectStep ==
    /\ frame.pc = "select"
    /\ \E out \in OhlcvOutcomes :
         LET pair == frame.pairs[frame.i]
             perf == DictSet(frame.performance_data, pair, RankedPerf(out))
             warned == IF Raises(out) THEN frame.warned \cup {pair} ELSE frame.warned \ {pair}
             g == [frame EXCEPT !.warned = warned, !.fetched = @ + 1]
         IN  frame' = IF frame.i = Len(frame.pairs)
                      THEN SelectFinish(g, perf)
                      ELSE [g EXCEPT !.performance_data = perf, !.i = @ + 1]
    /\ UNCHANGED <<config, exchange, positions, now, callNo, last_rebalance, bt>>

\* a call of select_pairs()
SelectPairs ==
    /\ frame.pc = "idle"
    /\ callNo < MaxCalls
    /\ callNo' = callNo + 1
    /\ frame' = select_pairs(Call("select_pairs"))
    /\ UNCHANGED <<config, exchange, positions, now, last_rebalance, bt>>

\* a call of calculate_position_sizes(pairs)
CalculatePositionSizes ==
    /\ frame.pc = "idle"
    /\ callNo < MaxCalls
    /\ callNo' = callNo + 1
    /\ \E pairs \in PairLists :
         frame' = calculate_position_sizes(
                      [Call("calculate_position_sizes") EXCEPT !.arg = pairs], pairs)
    /\ UNCHANGED <<config, exchange, positions, now, last_rebalance, bt>>


-----------------------------------------------------------------------------
(* execute_trades, rebalance *)

\* lines 137-142
Position(size, price) ==
    [amount |-> RDiv(size, Int2R(price)), entry_price |-> price,
     entry_time |-> now, size_usd |-> size]

\* one iteration of the loop of lines 120-145, with the exchange connected: the
\* ticker, the order when live_trading is set, the position when neither raised
BuyStep ==
    /\ frame.pc = "buy"
    /\ \E t \in TickerOutcomes, order_ok \in BOOLEAN :
         LET pair == frame.position_sizes[frame.i].key
             size == frame.position_sizes[frame.i].val
             live == Get(config, "live_trading", FALSE)
             recorded == t.ok /\ (live => order_ok)
             g == [frame EXCEPT !.fetched = @ + 1,
                                !.ordered = IF t.ok /\ live THEN @ + 1 ELSE @,
                                !.bought = IF recorded THEN @ \cup {pair} ELSE @]
         IN  /\ positions' = IF recorded
                             THEN DictSet(positions, pair, Position(size, t.last))
                             ELSE positions
             /\ frame' = IF frame.i = Len(frame.position_sizes)
                         THEN Return(g)
                         ELSE [g EXCEPT !.i = @ + 1]
    /\ UNCHANGED <<config, exchange, now, callNo, last_rebalance, bt>>

execute_trades(f) == select_pairs(f)

\* a call of execute_trades()
ExecuteTrades ==
    /\ frame.pc = "idle"
    /\ callNo < MaxCalls
    /\ callNo' = callNo + 1
    /\ frame' = execute_trades(Call("execute_trades"))
    /\ UNCHANGED <<config, exchange, positions, now, last_rebalance, bt>>

\* rebalance without the check of rebalancing.enabled
rebalance_unguarded(f) == execute_trades(f)

\* lines 178-194: the loop that sells the current positions has an empty body
rebalance(f) ==
    IF ~RebalancingEnabled THEN Return(f) ELSE execute_trades(f)

\* a call of rebalance()
Rebalance ==
    /\ frame.pc = "idle"
    /\ callNo < MaxCalls
    /\ callNo' = callNo + 1
    /\ frame' = rebalance([Call("rebalance") EXCEPT !.since = now - last_rebalance])
    /\ last_rebalance' = IF RebalancingEnabled THEN now ELSE last_rebalance
    /\ UNCHANGED <<config, exchange, positions, now, bt>>

-----------------------------------------------------------------------------
(* check_performance *)

\* lines 171-176: the portfolio line is logged only when total_cost > 0
CheckFinish(f) ==
    LET total_profit == RSub(f.total_value, f.total_cost)
        total_profit_pct == RMul(RDiv(total_profit, f.total_cost), Int2R(100))
    IN  Return(IF RGt(f.total_cost, Zero) THEN [f EXCEPT !.report = <<total_profit_pct>>] ELSE f)

\* without an exchange every iteration raises AttributeError, which is caught and logged
check_performance(f) ==
    LET g == [f EXCEPT !.pairs = DictKeys(positions)]
    IN  IF positions = <<>> THEN CheckFinish(g)
        ELSE IF exchange = "None"
        THEN CheckFinish([g EXCEPT !.failed = {positions[j].key : j \in 1..Len(positions)}])
        ELSE [g EXCEPT !.pc = "check", !.i = 1]

\* a call of check_performance()
CheckPerformance ==
    /\ frame.pc = "idle"
    /\ callNo < MaxCalls
    /\ callNo' = callNo + 1
    /\ frame' = check_performance(Call("check_performance"))
    /\ UNCHANGED <<config, exchange, positions, now, last_rebalance, bt>>

\* lines 153-169 for one position whose ticker arrived: the totals and the log line
Valued(f, pair, position, price) ==
    LET current_value == RMul(position.amount, Int2R(price))
        cost == position.size_usd
    IN  [f EXCEPT !.total_value = RAdd(@, current_value),
                  !.total_cost = RAdd(@, cost),
                  !.valued = Append(@, [key |-> pair, val |-> current_value])]

\* the loop of lines 152-169 without its try: a failed lookup ends the pass
CheckStepUncaught ==
    /\ frame.pc = "check"
    /\ \E t \in TickerOutcomes :
         LET pair == positions[frame.i].key
             f == [frame EXCEPT !.fetched = @ + 1]
         IN  frame' = IF ~t.ok THEN Raise(f, "Exception")
                      ELSE IF frame.i = Len(positions)
                      THEN CheckFinish(Valued(f, pair, positions[frame.i].val, t.last))
                      ELSE [Valued(f, pair, positions[frame.i].val, t.last) EXCEPT !.i = @ + 1]
    /\ UNCHANGED <<config, exchange, positions, now, callNo, last_rebalance, bt>>

\* one iteration of the loop of lines 152-169, with the exchange connected
CheckStep ==
    /\ frame.pc = "check"
    /\ \E t \in TickerOutcomes :
         LET pair == positions[frame.i].key
             f == [frame EXCEPT !.fetched = @ + 1]
             g == IF t.ok
                  THEN Valued(f, pair, positions[frame.i].val, t.last)
                  ELSE [f EXCEPT !.failed = @ \cup {pair}]
         IN  frame' = IF frame.i = Len(positions)
                      THEN CheckFinish(g)
                      ELSE [g EXCEPT !.i = @ + 1]
    /\ UNCHANGED <<config, exchange, positions, now, callNo, last_rebalance, bt>>

-----------------------------------------------------------------------------
(* connect_exchange, and the clock *)

ConnectExchange ==
    /\ frame.pc = "idle"
    /\ exchange = "None"
    /\ exchange' = "Connected"
    /\ UNCHANGED <<config, positions, now, callNo, last_rebalance, frame, bt>>

Tick ==
    /\ frame.pc = "idle"
    /\ now < MaxTime
    /\ now' = now + 1
    /\ UNCHANGED <<config, exchange, positions, callNo, last_rebalance, frame, bt>>


-----------------------------------------------------------------------------
(* backtest.py: BuyHoldBacktester *)

RECURSIVE BarsUpTo(_)
BarsUpTo(n) ==
    IF n = 0 THEN {<<>>}
    ELSE LET shorter == BarsUpTo(n - 1)
         IN  shorter \cup {Append(l, c) : l \in {s \in shorter : Len(s) = n - 1}, c \in Closes}

\* what fetch_historical_data returns: a frame of bars, or pd.DataFrame() (no
\* columns at all) when the fetch raised
NoColumns == [columns |-> FALSE, close |-> <<>>]
DataFrames == {NoColumns} \cup {[columns |-> TRUE, close |-> c] : c \in BarsUpTo(MaxBars)}

DaysPerYear == 365

calculate_buy_hold_return(df) ==
    IF Len(df.close) < 2 THEN Zero
    ELSE Rat(df.close[Len(df.close)] - df.close[1], df.close[1])

\* df['close'].pct_change().dropna()
PctChange(close) ==
    [j \in 1..(IF Len(close) = 0 THEN 0 ELSE Len(close) - 1) |->
        Rat(close[j + 1] - close[j], close[j])]

\* Series.mean(): nan for an empty series
Mean(s) == RDiv(RSum(s), Int2R(Len(s)))

\* Series.std() squared: the sample variance (ddof = 1), nan for fewer than 2 values
Variance(s) ==
    IF Len(s) < 2 THEN NaN
    ELSE RDiv(RSum([j \in 1..Len(s) |-> RMul(RSub(s[j], Mean(s)), RSub(s[j], Mean(s)))]),
              Int2R(Len(s) - 1))

\* (returns.mean() * 365) / volatility for volatility = sqrt(v) > 0
Sharpe(mean, v) ==
    LET m == RMul(mean, Int2R(DaysPerYear))
        q == RDiv(RMul(m, m), v)
    IN  IF m.n = 0 THEN Zero
        ELSE [k |-> "root", n |-> IF m.n < 0 THEN -q.n ELSE q.n, d |-> q.d]

RECURSIVE CumProd(_, _)
\* (1 + returns).cumprod()
CumProd(s, acc) ==
    IF s = <<>> THEN <<>>
    ELSE LET c == RMul(acc, RAdd(One, Head(s))) IN <<c>> \o CumProd(Tail(s), c)

RECURSIVE ExpandingMax(_, _)
\* cumulative.expanding().max()
ExpandingMax(s, best) ==
    IF s = <<>> THEN <<>>
    ELSE LET m == IF best = <<>> \/ RGt(Head(s), best[1]) THEN Head(s) ELSE best[1]
         IN  <<m>> \o ExpandingMax(Tail(s), <<m>>)

RECURSIVE SeriesMin(_)
\* Series.min(): nan for an empty series
SeriesMin(s) ==
    IF s = <<>> THEN NaN
    ELSE IF Len(s) = 1 THEN s[1]
    ELSE LET m == SeriesMin(Tail(s)) IN IF RLt(Head(s), m) THEN Head(s) ELSE m

NoMetrics ==
    [err |-> "none", total_return |-> Zero, volatility |-> Zero,
     sharpe_ratio |-> Zero, max_drawdown |-> Zero]

\* df['close'] raises KeyError on a frame without columns
calculate_metrics(df) ==
    IF ~df.columns THEN [NoMetrics EXCEPT !.err = "KeyError"]
    ELSE
    LET returns == PctChange(df.close)
        total_return == calculate_buy_hold_return(df)
        volatility == Root(RMul(Variance(returns), Int2R(DaysPerYear)))
        sharpe == IF Positive(volatility)
                  THEN Sharpe(Mean(returns), RMul(Variance(returns), Int2R(DaysPerYear)))
                  ELSE Zero
        cumulative == CumProd(returns, One)
        running_max == ExpandingMax(cumulative, <<>>)
        drawdown == [j \in 1..Len(cumulative) |->
                        RDiv(RSub(cumulative[j], running_max[j]), running_max[j])]
        max_drawdown == SeriesMin(drawdown)
    IN  [err |-> "none", total_return |-> total_return, volatility |-> volatility,
         sharpe_ratio |-> sharpe, max_drawdown |-> max_drawdown]

NoBacktest == [df |-> NoColumns, called |-> FALSE, ret |-> NoMetrics]

\* fetch_historical_data(symbol, days) hands out a frame
FetchHistoricalData ==
    /\ \E df \in DataFrames : bt' = [df |-> df, called |-> FALSE, ret |-> NoMetrics]
    /\ UNCHANGED <<config, exchange, positions, now, callNo, last_rebalance, frame>>

\* a call of calculate_metrics(df) on the frame at hand
CalculateMetrics ==
    /\ ~bt.called
    /\ bt' = [bt EXCEPT !.called = TRUE, !.ret = calculate_metrics(bt.df)]
    /\ UNCHANGED <<config, exchange, positions, now, callNo, last_rebalance, frame>>

-----------------------------------------------------------------------------
(* Specifications *)

Base(pairs) == ("pairs" :> pairs) @@ ("capital" :> Capital)

\* select_pairs reads pairs, dynamic_selection, max_pairs
SelectConfigs ==
    {Base(p) @@ d @@ m :
        p \in PairLists, d \in Opt("dynamic_selection", BOOLEAN), m \in Opt("max_pairs", 1..2)}

\* calculate_position_sizes reads capital, allocation
AllocConfigs ==
    {Base(<<>>) @@ a : a \in Opt("allocation", {"equal", "momentum", "other"})}

\* the live strategy: two pairs under the default (equal) allocation, statically
\* or with the better of the two selected
RebalancingConfigs ==
    {NoKeys} \cup {("rebalancing" :> r) :
                     r \in {NoKeys, ("frequency" :> 1)}
                           \cup {("enabled" :> e) @@ ("frequency" :> 1) : e \in BOOLEAN}}
LiveConfigs ==
    {Base(<<"X", "Y">>) @@ d @@ ("max_pairs" :> 1) @@ r @@ l :
        d \in Opt("dynamic_selection", {TRUE}),
        r \in RebalancingConfigs,
        l \in Opt("live_trading", {TRUE})}

InitState(configs, exchanges, calls) ==
    /\ config \in configs
    /\ exchange \in exchanges
    /\ positions = <<>>
    /\ now = 0
    /\ callNo = calls
    /\ last_rebalance = 0
    /\ frame = IdleFrame
    /\ bt = NoBacktest

\* the live strategy: __init__, then any sequence of the public methods
Init == InitState(LiveConfigs, {"None"}, 0)
Next ==
    \/ ConnectExchange
    \/ Tick
    \/ ExecuteTrades
    \/ Rebalance
    \/ CheckPerformance
    \/ SelectStep
    \/ BuyStep
    \/ CheckStep
Spec == Init /\ [][Next]_vars

\* one call of select_pairs() under every configuration
InitSelect == InitState(SelectConfigs, {"None", "Connected"}, MaxCalls - 1)
NextSelect == SelectPairs \/ SelectStep
SpecSelect == InitSelect /\ [][NextSelect]_vars

\* one call of calculate_position_sizes(pairs) for every list of pairs
InitAlloc == InitState(AllocConfigs, {"None", "Connected"}, MaxCalls - 1)
NextAlloc == CalculatePositionSizes \/ SizesStep
SpecAlloc == InitAlloc /\ [][NextAlloc]_vars

\* calculate_metrics on every frame fetch_historical_data can hand out
InitMetrics == InitState({Base(<<>>)}, {"Connected"}, 0)
NextMetrics == FetchHistoricalData \/ CalculateMetrics
SpecMetrics == InitMetrics /\ [][NextMetrics]_vars


-----------------------------------------------------------------------------
(* Vocabulary of the properties *)

KeySet(d) == {d[j].key : j \in 1..Len(d)}
Elems(l) == {l[j] : j \in 1..Len(l)}
IndexOf(l, x) == CHOOSE j \in 1..Len(l) : l[j] = x

\* the distinct entries of a list, in the order of their first occurrence
FirstOccurrences(l) ==
    LET firsts == {j \in 1..Len(l) : \A h \in 1..(j - 1) : l[h] # l[j]}
        nth[r \in 1..Cardinality(firsts)] ==
            CHOOSE j \in firsts : Cardinality({h \in firsts : h < j}) = r - 1
    IN  [r \in 1..Cardinality(firsts) |-> l[nth[r]]]

\* the place of entry j when d is ordered by value, largest first, equal values
\* in the order of d
RankIn(d, j) ==
    1 + Cardinality({h \in 1..Len(d) :
                        RGt(d[h].val, d[j].val) \/ (d[h].val = d[j].val /\ h < j)})

Returned(op) == frame.op = op /\ frame.pc = "idle"
Allocation == Get(config, "allocation", "equal")
TopK == Get(config, "max_pairs", DefaultMaxPairs)
Min(a, b) == IF a < b THEN a ELSE b

\* positions held since before the running call: never sold, not bought again
HeldSinceBefore == {p \in KeySet(frame.before) : DictHas(positions, p) /\ p \notin frame.bought}

-----------------------------------------------------------------------------
(* The live strategy (Spec) *)

\* C1: during a rebalance, no position held since before the rebalance coexists
\* with a position the rebalance opened (everything is liquidated before buying).
C1_LiquidatedBeforeBuying ==
    frame.op = "rebalance" => (HeldSinceBefore = {} \/ frame.bought = {})

\* C2: a rebalance() called before the configured frequency has elapsed since the
\* last rebalance does not leave Idle, changes no position and places no order.
C2_NoRebalanceBeforeDue ==
    (frame.op = "rebalance" /\ RebalancingEnabled /\ frame.since < Frequency)
        => (frame.pc = "idle" /\ positions = frame.before /\ frame.ordered = 0)

\* C3: with rebalancing not enabled (rebalancing missing, enabled false or
\* missing) a call of rebalance() returns at once: the handler never leaves Idle,
\* positions are what they were, no price was fetched and no order placed.
C3_DisabledRebalanceDoesNothing ==
    (frame.op = "rebalance" /\ ~RebalancingEnabled)
        => /\ frame.pc = "idle"
           /\ frame.err = "none"
           /\ positions = frame.before
           /\ frame.fetched = 0
           /\ frame.ordered = 0
           /\ frame.bought = {}

\* rebalance() was called on a connected strategy that holds positions, with a
\* rebalancing section that lacks the enabled key
C3_Witness ==
    /\ frame.op = "rebalance"
    /\ "rebalancing" \in DOMAIN config
    /\ "enabled" \notin DOMAIN config["rebalancing"]
    /\ exchange = "Connected"
    /\ positions # <<>>

\* C10: check_performance never raises and never changes positions; a position
\* whose price lookup failed adds nothing to the totals and every other position
\* is still valued; the portfolio percentage is computed exactly when total_cost > 0.
C10_PartialValuation ==
    frame.op = "check_performance" =>
        /\ frame.err = "none"
        /\ positions = frame.before
        /\ frame.pc = "idle" =>
            /\ frame.failed \cup KeySet(frame.valued) = KeySet(positions)
            /\ frame.failed \cap KeySet(frame.valued) = {}
            /\ Len(frame.valued) = Cardinality(KeySet(frame.valued))
            /\ frame.total_value = RSum(DictVals(frame.valued))
            /\ frame.total_cost =
                   RSum([j \in 1..Len(positions) |->
                            IF positions[j].key \in frame.failed
                            THEN Zero ELSE positions[j].val.size_usd])
            /\ (frame.report # <<>>) <=> RGt(frame.total_cost, Zero)
            /\ frame.report # <<>> =>
                   frame.report[1] =
                       RDiv(RMul(RSub(frame.total_value, frame.total_cost), Int2R(100)),
                            frame.total_cost)

\* a valuation pass in which one lookup failed and another position was valued
C10_Witness ==
    /\ Returned("check_performance")
    /\ frame.failed # {}
    /\ frame.valued # <<>>
    /\ frame.report # <<>>

-----------------------------------------------------------------------------
(* calculate_position_sizes (SpecAlloc) *)

\* C4: for an empty list calculate_position_sizes returns the empty mapping and
\* raises nothing, whatever the allocation policy.
C4_EmptyListEmptyMapping ==
    (Returned("calculate_position_sizes") /\ frame.arg = <<>>)
        => (frame.err = "none" /\ frame.position_sizes = <<>>)

\* C5: under equal allocation a non-empty list of n entries gives every asset
\* total_capital * (1/n), and the returned sizes sum to total_capital.
C5_EqualSplitSumsToCapital ==
    (Returned("calculate_position_sizes") /\ Allocation = "equal" /\ frame.arg # <<>>)
        => /\ frame.err = "none"
           /\ KeySet(frame.position_sizes) = Elems(frame.arg)
           /\ \A j \in 1..Len(frame.position_sizes) :
                 frame.position_sizes[j].val =
                     RMul(Int2R(config["capital"]), RDiv(One, Int2R(Len(frame.arg))))
           /\ RSum(DictVals(frame.position_sizes)) = Int2R(config["capital"])

\* C6: under momentum allocation every recorded momentum is clipped at 0 and no
\* size is negative; when the clipped momenta sum to more than 0 each size is
\* total_capital * clipped momentum / sum; when they are all 0 (all momenta <= 0,
\* every fetch failing, no exchange) every asset of the list gets the equal
\* share total_capital / n, and the empty list gets the empty mapping.
C6_MomentumAllocation ==
    (Returned("calculate_position_sizes") /\ Allocation = "momentum") =>
        LET perf == frame.performance_data
            sizes == frame.position_sizes
            total == RSum(DictVals(perf))
            capital == Int2R(config["capital"])
        IN  /\ frame.err = "none"
            /\ DictKeys(perf) = FirstOccurrences(frame.arg)
            /\ KeySet(sizes) = Elems(frame.arg)
            /\ Len(sizes) = Cardinality(Elems(frame.arg))
            /\ \A j \in 1..Len(perf) : ~RLt(perf[j].val, Zero)
            /\ \A j \in 1..Len(sizes) : ~RLt(sizes[j].val, Zero)
            /\ RGt(total, Zero) =>
                 \A p \in Elems(frame.arg) :
                     DictGet(sizes, p) = RDiv(RMul(capital, DictGet(perf, p)), total)
            /\ ~RGt(total, Zero) =>
                 \A p \in Elems(frame.arg) :
                     DictGet(sizes, p) = RDiv(capital, Int2R(Len(frame.arg)))

\* the fallback: windows were fetched for two assets, none rose, both get half
C6_Witness ==
    /\ Returned("calculate_position_sizes")
    /\ Allocation = "momentum"
    /\ frame.fetched = 2
    /\ Len(frame.position_sizes) = 2
    /\ RSum(DictVals(frame.performance_data)) = Zero
    /\ \A j \in 1..2 : frame.position_sizes[j].val = RDiv(Int2R(config["capital"]), Int2R(2))

-----------------------------------------------------------------------------
(* select_pairs (SpecSelect) *)

DynamicSelection == Get(config, "dynamic_selection", FALSE)

\* C8: with dynamic selection select_pairs returns the first max_pairs candidates
\* in the order of momentum, largest first, candidates of equal momentum in
\* their input order (the candidates are the distinct entries of config['pairs'],
\* in the order of their first occurrence).
C8_TopKStableRanking ==
    (Returned("select_pairs") /\ DynamicSelection) =>
        LET perf == frame.performance_data
        IN  /\ DictKeys(perf) = FirstOccurrences(config["pairs"])
            /\ Len(frame.selected) = Min(TopK, Len(perf))
            /\ \A j \in 1..Len(perf) :
                 RankIn(perf, j) <= Len(frame.selected)
                     => frame.selected[RankIn(perf, j)] = perf[j].key

\* the scenario [X, Y, Z] with X and Z tied ahead of Y and top_k = 2 gives [X, Z]
C8_Witness ==
    /\ Returned("select_pairs")
    /\ DynamicSelection
    /\ config["pairs"] = <<"X", "Y", "Z">>
    /\ TopK = 2
    /\ frame.fetched = 3
    /\ RGt(DictGet(frame.performance_data, "X"), Zero)
    /\ DictGet(frame.performance_data, "Z") = DictGet(frame.performance_data, "X")
    /\ RLt(DictGet(frame.performance_data, "Y"), Zero)
    /\ frame.selected = <<"X", "Z">>

\* C9: a candidate whose window fetch failed stays in the ranking with momentum
\* exactly 0; the ranking of the other candidates is not aborted; the failed
\* candidate comes before every candidate of negative momentum, so that one is
\* selected only behind it.
C9_FailedFetchRanksAsFlat ==
    (frame.op = "select_pairs" /\ DynamicSelection) =>
        LET perf == frame.performance_data
        IN  /\ frame.err = "none"
            /\ \A p \in frame.warned : DictHas(perf, p) /\ DictGet(perf, p) = Zero
            /\ frame.pc = "idle" =>
                 /\ KeySet(perf) = Elems(config["pairs"])
                 /\ \A p \in frame.warned, q \in KeySet(perf) :
                      (RLt(DictGet(perf, q), Zero) /\ q \in Elems(frame.selected))
                          => /\ p \in Elems(frame.selected)
                             /\ IndexOf(frame.selected, p) < IndexOf(frame.selected, q)

\* a candidate whose fetch failed is selected ahead of one with negative momentum
C9_Witness ==
    /\ Returned("select_pairs")
    /\ DynamicSelection
    /\ \E p \in frame.warned, q \in KeySet(frame.performance_data) :
         /\ RLt(DictGet(frame.performance_data, q), Zero)
         /\ IndexOf(config["pairs"], q) < IndexOf(config["pairs"], p)
         /\ p \in Elems(frame.selected)
         /\ q \notin Elems(frame.selected)

-----------------------------------------------------------------------------
(* calculate_metrics (SpecMetrics) *)

\* C7: on a price series of length 0 or 1 calculate_metrics raises nothing and
\* returns total_return = volatility = sharpe_ratio = max_drawdown = 0.
C7_ShortSeriesAllZero ==
    (bt.called /\ bt.df.columns /\ Len(bt.df.close) <= 1)
        => /\ bt.ret.err = "none"
           /\ bt.ret.total_return = Zero
           /\ bt.ret.volatility = Zero
           /\ bt.ret.sharpe_ratio = Zero
           /\ bt.ret.max_drawdown = Zero

=============================================================================
